---- MODULE Spec2Model ----
(***************************************************************************)
(* The analysis pipeline of FYP-CE-Analytics/service: the Run Record store *)
(* (task_transaction collection), the start operation that submits the     *)
(* three-stage Celery chain (ingest -> cluster -> analysis), and the three *)
(* stage tasks with the status writes each one makes.                      *)
(***************************************************************************)
EXTENDS Integers, Sequences, FiniteSets, TLC

(***************************************************************************)
(* Bounds of the model.                                                    *)
(***************************************************************************)
\* Number of runs that start may create.
MaxRuns == 1
\* Largest number of threads the forum returns for the unit.
MaxThreads == 11
\* Number of documents of the corpus a grid search is run on.
GridDocs == 5
\* Largest number of Cluster Runs the redeliveries of one task may leave.
MaxClusterRuns == 2

Runs == 1..MaxRuns

(***************************************************************************)
(* Python values.                                                          *)
(***************************************************************************)
\* Python None where an object (a result payload) is expected.
None == [NoneType |-> TRUE]
\* Python None where a string (an id) is expected.
NoId == "None"
\* The empty dict {}.
EmptyDict == <<>>
\* Truthiness of an optional dict argument: None and {} are falsy.
Truthy(v) == v # None /\ v # EmptyDict
\* dict.get(key): a missing key reads as None.
Get(d, k) == IF k \in DOMAIN d THEN d[k] ELSE None
\* dict.get(key) for a key that holds a string.
GetStr(d, k) == IF k \in DOMAIN d THEN d[k] ELSE NoId

\* The unit every request of the model names, and the dates of the request.
UnitId == "22913"
StartDate == "2025-03-01"
EndDate == "2025-03-31"
\* RunTaskRequest.model_dump(): startDate and endDate are required strings; a
\* request either gives both dates or leaves both empty (the ingest task then
\* applies no date filter).
DatedRequest == [unitId |-> UnitId, startDate |-> StartDate, endDate |-> EndDate]
UndatedRequest == [unitId |-> UnitId, startDate |-> "", endDate |-> ""]
RunTaskRequests == {DatedRequest, UndatedRequest}
\* str(transcation_record.id): the id of the r-th record as a string.
Oid(r) == ToString(r)

(***************************************************************************)
(* app/schemas/tasks/task_status.py                                        *)
(***************************************************************************)
RECEIVED == "received"
PENDING == "pending"
RUNNING_FETCH_THREADS == "running fetch_and_store_threads_by_unit"
RUNNING_FETCH_THREADS_CATEGORY == "running fetch_and_store_threads_by_unit_by_category"
INSERTING_SUCCESS == "inserting success"
RUNNING_CLUSTERING == "running clustering"
FINISH_CLUSTERING == "finish clustering"
RUNNING_AGENT_ANALYSIS == "running agent analysis"
RUNNING_UNIT_TREND_ANALYSIS == "running unit trend analysis"
COMPLETED == "completed"
SUCCESS == "success"
FAILURE == "failure"
ERROR == "error"

TaskStatus ==
    { RECEIVED, PENDING, RUNNING_FETCH_THREADS, RUNNING_FETCH_THREADS_CATEGORY,
      INSERTING_SUCCESS, RUNNING_CLUSTERING, FINISH_CLUSTERING,
      RUNNING_AGENT_ANALYSIS, RUNNING_UNIT_TREND_ANALYSIS, COMPLETED, SUCCESS,
      FAILURE, ERROR }

TASK_STATUS_PROGRESS ==
    (RECEIVED :> 0) @@ (PENDING :> 0) @@ (RUNNING_FETCH_THREADS :> 10) @@
    (RUNNING_FETCH_THREADS_CATEGORY :> 10) @@ (INSERTING_SUCCESS :> 20) @@
    (RUNNING_CLUSTERING :> 40) @@ (FINISH_CLUSTERING :> 60) @@
    (RUNNING_AGENT_ANALYSIS :> 80) @@ (RUNNING_UNIT_TREND_ANALYSIS :> 80) @@
    (COMPLETED :> 100) @@ (SUCCESS :> 100) @@ (FAILURE :> 0) @@ (ERROR :> 0)

(***************************************************************************)
(* State.                                                                  *)
(***************************************************************************)
VARIABLES
    task_transaction,   \* the Run Record collection: record id -> document
    clusters,           \* db.clusters: the persisted Cluster Runs, in insertion order
    vector_store,       \* ids of the records held in the unit's embedding namespace
    question_cluster,   \* the question_cluster collection
    celery,             \* per run: the chain's position, the value passed on, who raised
    api,                \* per run: how far run_chain_task has got
    cancel_response,    \* per run: the HTTP status of the last cancel request
    status_response,    \* the last status request: the id asked for and the HTTP status
    grid,               \* a grid search: the outcome of each candidate fit, and its result
    final_fit,          \* a final fit: the rows, their labels and probabilities, and its result
    update_call         \* the arguments of the last update_task_status_sync taken on its own

vars ==
    <<task_transaction, clusters, vector_store, question_cluster, celery, api, cancel_response,
      status_response, grid, final_fit, update_call>>

(***************************************************************************)
(* app/repositories/task_transaction_repository.py                         *)
(***************************************************************************)
\* create_task: a new document with status RECEIVED and progress 0; the other
\* fields take the defaults of TaskTransactionModel.
create_task(input) ==
    [ status |-> RECEIVED,
      progress |-> 0,
      completed_at |-> FALSE,
      error_message |-> "",
      result |-> EmptyDict,
      celery_task_id |-> NoId,
      input |-> input ]

\* TASK_STATUS_PROGRESS.get(status, 0)
ProgressOf(status) ==
    IF status \in DOMAIN TASK_STATUS_PROGRESS THEN TASK_STATUS_PROGRESS[status] ELSE 0

\* update_task_status_sync that sets the status and leaves progress as it was.
update_task_status_sync_stale_progress(tt, task_id, status, error_message, result, celery_task_id) ==
    IF task_id \notin { Oid(r) : r \in DOMAIN tt }
    THEN tt
    ELSE LET r == CHOOSE x \in DOMAIN tt : Oid(x) = task_id
         IN [ tt EXCEPT ![r] =
                [ @ EXCEPT
                    !.status = status,
                    !.completed_at = IF status \in {COMPLETED, SUCCESS} THEN TRUE ELSE @,
                    !.error_message = IF error_message # "" THEN error_message ELSE @,
                    !.result = IF Truthy(result) THEN result ELSE @,
                    !.celery_task_id = IF celery_task_id # NoId THEN celery_task_id ELSE @ ] ]

\* update_task_status_sync whose filter is the unit of the document and not
\* its _id: every Run Record of that unit is updated.
update_task_status_sync_by_unit(tt, task_id, status, error_message, result, celery_task_id) ==
    IF task_id \notin { Oid(r) : r \in DOMAIN tt }
    THEN tt
    ELSE LET r == CHOOSE x \in DOMAIN tt : Oid(x) = task_id
         IN [ x \in DOMAIN tt |->
                IF tt[x].input.unitId # tt[r].input.unitId THEN tt[x]
                ELSE [ tt[x] EXCEPT
                         !.status = status,
                         !.progress = ProgressOf(status),
                         !.completed_at = IF status \in {COMPLETED, SUCCESS} THEN TRUE ELSE @,
                         !.error_message = IF error_message # "" THEN error_message ELSE @,
                         !.result = IF Truthy(result) THEN result ELSE @,
                         !.celery_task_id = IF celery_task_id # NoId THEN celery_task_id ELSE @ ] ]

\* update_task_status_sync without the "if error_message:", "if result:" and
\* "if celery_task_id:" of lines 96-101: every argument is written.
update_task_status_sync_overwriting(tt, task_id, status, error_message, result, celery_task_id) ==
    IF task_id \notin { Oid(r) : r \in DOMAIN tt }
    THEN tt
    ELSE LET r == CHOOSE x \in DOMAIN tt : Oid(x) = task_id
         IN [ tt EXCEPT ![r] =
                [ @ EXCEPT
                    !.status = status,
                    !.progress = ProgressOf(status),
                    !.completed_at = IF status \in {COMPLETED, SUCCESS} THEN TRUE ELSE @,
                    !.error_message = error_message,
                    !.result = IF result = None THEN EmptyDict ELSE result,
                    !.celery_task_id = celery_task_id ] ]

\* update_task_status_sync: the collection after the call.  A task_id with no
\* document (ObjectId(None) is a fresh id; a malformed id raises inside the try)
\* changes nothing and the call returns None.
update_task_status_sync(tt, task_id, status, error_message, result, celery_task_id) ==
    IF task_id \notin { Oid(r) : r \in DOMAIN tt }
    THEN tt
    ELSE LET r == CHOOSE x \in DOMAIN tt : Oid(x) = task_id
         IN [ tt EXCEPT ![r] =
                [ @ EXCEPT
                    !.status = status,
                    !.progress = ProgressOf(status),
                    !.completed_at = IF status \in {COMPLETED, SUCCESS} THEN TRUE ELSE @,
                    !.error_message = IF error_message # "" THEN error_message ELSE @,
                    !.result = IF Truthy(result) THEN result ELSE @,
                    !.celery_task_id = IF celery_task_id # NoId THEN celery_task_id ELSE @ ] ]

(***************************************************************************)
(* The Celery chain of one run.  pc is the task the chain is at and whether *)
(* a worker has begun it; arg is the value the chain passes to that task    *)
(* (the previous task's return value, and at the end the chain's result);   *)
(* raised names the task that ended by raising, after which Celery runs no  *)
(* further task of the chain; kwargs are the arguments the signature of     *)
(* the cluster task carries; fetched records that the cluster task has    *)
(* asked the vector store for embeddings; fit_raised that the final         *)
(* clustering call of the cluster task raised; memory_guard that the grid   *)
(* search of the cluster task returned at its memory check; revoked that    *)
(* the id the chain returned (the id of its last task, the analysis) has    *)
(* been revoked.                                                            *)
(***************************************************************************)
ChainIdle ==
    [ pc |-> "none", arg |-> None, kwargs |-> None, raised |-> "none",
      fetched |-> FALSE, fit_raised |-> FALSE, memory_guard |-> FALSE, revoked |-> FALSE ]

\* A Python value that is an int, and one that is a str.
IntV(n) == [int |-> n]
StrV(s) == [str |-> s]
IsIntV(v) == "int" \in DOMAIN v
\* bool(v) of such a value.
TruthyV(v) == IF IsIntV(v) THEN v.int # 0 ELSE v.str # ""

\* result.id of chain(...).apply_async(): the id of the chain's last task.
CeleryId(r) == "celery-" \o ToString(r)

\* run_chain_task lines 39-40: cluster_unit_documents.s(unitId, startDate,
\* endDate) binds, after prev_req, unit_id, auto_optimize and min_cluster_size
\* positionally; min_samples keeps its default.
ClusterArgsOf(request) ==
    [ unit_id |-> request.unitId,
      auto_optimize |-> StrV(request.startDate),
      min_cluster_size |-> StrV(request.endDate),
      min_samples |-> IntV(2) ]
ClusterArgs == ClusterArgsOf(DatedRequest)
UndatedClusterArgs == ClusterArgsOf(UndatedRequest)

\* cluster_unit_documents lines 63-64: the defaults of the signature, which
\* cluster_unit_documents.s(unitId) keeps (True is 1).
DefaultClusterArgs ==
    [ unit_id |-> UnitId,
      auto_optimize |-> IntV(1),
      min_cluster_size |-> IntV(2),
      min_samples |-> IntV(2) ]

\* No status request has been answered; no grid search has been run.
NoRequest == [transaction_id |-> NoId, status_code |-> 0, progress |-> 0]
NoGrid == [outcomes |-> <<>>, memory_high |-> FALSE, best_params |-> <<>>]
\* No final fit and no update has been run on its own.
NoFit ==
    [ df |-> <<>>, labels |-> <<>>, probabilities |-> <<>>,
      returned |-> FALSE, core_docs |-> <<>>, num_clusters |-> 0 ]
NoCall == None

Init ==
    /\ task_transaction = <<>>
    /\ clusters = <<>>
    /\ vector_store = {}
    /\ question_cluster = {}
    /\ celery = [r \in Runs |-> ChainIdle]
    /\ api = [r \in Runs |-> "idle"]
    /\ cancel_response = [r \in Runs |-> 0]
    /\ status_response = NoRequest
    /\ grid = NoGrid
    /\ final_fit = NoFit
    /\ update_call = NoCall

(***************************************************************************)
(* app/api/api_v1/endpoints/tasks.py: run_chain_task                       *)
(***************************************************************************)
\* Lines 30-44: create the Run Record, build the chain and submit it.
run_chain_task_submit(r) ==
    /\ api[r] = "idle"
    /\ r = Len(task_transaction) + 1
    /\ \E request \in RunTaskRequests :
          /\ task_transaction' = Append(task_transaction, create_task(request))
          /\ celery' = [celery EXCEPT ![r] = [ChainIdle EXCEPT !.pc = "ingest_queued",
                                                               !.kwargs = ClusterArgsOf(request)]]
    /\ api' = [api EXCEPT ![r] = "submitted"]
    /\ UNCHANGED <<clusters, vector_store, question_cluster, cancel_response,
                   status_response, grid, final_fit, update_call>>

\* run_chain_task that writes PENDING and does not pass the Celery id on.
run_chain_task_store_without_id(r) ==
    /\ api[r] = "submitted"
    /\ task_transaction' =
           update_task_status_sync(task_transaction, Oid(r), PENDING, "", None, NoId)
    /\ api' = [api EXCEPT ![r] = "answered"]
    /\ UNCHANGED <<clusters, vector_store, question_cluster, celery, cancel_response,
                   status_response, grid, final_fit, update_call>>

\* Lines 46-53: store the Celery id with status PENDING and answer.
run_chain_task_store(r) ==
    /\ api[r] = "submitted"
    /\ task_transaction' =
           update_task_status_sync(task_transaction, Oid(r), PENDING, "", None, CeleryId(r))
    /\ api' = [api EXCEPT ![r] = "answered"]
    /\ UNCHANGED <<clusters, vector_store, question_cluster, celery, cancel_response,
                   status_response, grid, final_fit, update_call>>

(***************************************************************************)
(* app/tasks/fetch_insert_to_vector_db_tasks.py                            *)
(***************************************************************************)
\* The threads the forum returns are numbered 1..n.
ThreadIds(n) == [i \in 1..n |-> i]

\* Lines 163-171: StoringTaskResult(...).model_dump()
StoringTaskResult(n, transaction_id) ==
    [ status |-> "success",
      message |-> "Fetched and stored threads",
      result |-> [unit_ids |-> <<UnitId>>, thread_ids |-> ThreadIds(n)],
      transaction_id |-> transaction_id ]

\* insert_to_vector_db: the documents go up in batches of 50, so the documents
\* of the model are one batch; a batch whose upsert raises is skipped silently.
insert_to_vector_db(store, n, upsert_ok) ==
    IF upsert_ok THEN store \cup 1..n ELSE store

\* Lines 96-103: a worker takes the ingest task and writes RUNNING_FETCH_THREADS.
fetch_and_store_threads_by_unit_begin(r) ==
    /\ celery[r].pc = "ingest_queued"
    /\ task_transaction' =
           update_task_status_sync(task_transaction, Oid(r), RUNNING_FETCH_THREADS, "", None, NoId)
    /\ celery' = [celery EXCEPT ![r].pc = "ingest_started"]
    /\ UNCHANGED <<clusters, vector_store, question_cluster, api, cancel_response,
                   status_response, grid, final_fit, update_call>>

\* Lines 104-116, 132-134: the user or the unit is not found, or the forum
\* client raises; nothing catches it and the task ends by raising.
fetch_and_store_threads_by_unit_raise(r) ==
    /\ celery[r].pc = "ingest_started"
    /\ celery' = [celery EXCEPT ![r].pc = "chain_failed", ![r].raised = "ingest"]
    /\ UNCHANGED <<task_transaction, clusters, vector_store, question_cluster, api, cancel_response,
                   status_response, grid, final_fit, update_call>>

\* Lines 116-180: n threads are fetched and upserted; with no thread the task
\* writes ERROR and raises ValueError, otherwise it writes INSERTING_SUCCESS with
\* its result and returns it.
fetch_and_store_threads_by_unit_finish(r, n, upsert_ok) ==
    /\ celery[r].pc = "ingest_started"
    /\ vector_store' = insert_to_vector_db(vector_store, n, upsert_ok)
    /\ IF n = 0
       THEN /\ task_transaction' =
                   update_task_status_sync(task_transaction, Oid(r), ERROR,
                                           "No threads found to store", EmptyDict, NoId)
            /\ celery' = [celery EXCEPT ![r].pc = "chain_failed", ![r].raised = "ingest"]
       ELSE /\ task_transaction' =
                   update_task_status_sync(task_transaction, Oid(r), INSERTING_SUCCESS,
                                           "", StoringTaskResult(n, Oid(r)), NoId)
            /\ celery' = [celery EXCEPT ![r].pc = "cluster_queued",
                                        ![r].arg = StoringTaskResult(n, Oid(r))]
    /\ UNCHANGED <<clusters, question_cluster, api, cancel_response,
                   status_response, grid, final_fit, update_call>>

(***************************************************************************)
(* app/tasks/thread_clustering_tasks.py                                    *)
(***************************************************************************)
\* Line 98: below this many thread ids the stage does not cluster.
SmallCorpus == 5
\* Line 225: the number of leading documents the degraded result keeps.
FallbackDocs == 10
\* Probabilities are multiples of 1/ProbScale; ProbScale stands for 1.0.
ProbScale == 2
\* The label HDBSCAN gives a document it assigns to no cluster.
Noise == -1

\* The three error dicts of the stage (lines 106-110, 180-184, 290-294).
ClusterError(message) ==
    [status |-> "error", message |-> message, unit_id |-> UnitId]

\* get_embeddings_from_db: the rows of the DataFrame, one per id the vector
\* store holds; no id, no fetch and an empty DataFrame.
get_embeddings_from_db(store, ids) ==
    IF Len(ids) = 0 THEN <<>> ELSE SelectSeq(ids, LAMBDA i : i \in store)

CoreDocument(id, probability) == [id |-> id, probability |-> probability]

\* Lines 113-117 and 221-225: one core document per row, probability 1.0.
DirectCoreDocs(df) == [i \in 1..Len(df) |-> CoreDocument(df[i], ProbScale)]

\* df.head(n)
DfHead(df, n) == SubSeq(df, 1, IF Len(df) < n THEN Len(df) ELSE n)

ClusterRecord(num_documents, num_clusters, mcs, ms, core_docs, cluster_id) ==
    [ unit_id |-> UnitId,
      num_documents |-> num_documents,
      num_clusters |-> num_clusters,
      parameters |-> [ auto_optimized |-> TRUE, min_cluster_size |-> mcs,
                       min_samples |-> ms, metric |-> "cosine" ],
      core_docs |-> core_docs,
      cluster_id |-> cluster_id ]

\* ClusterTaskResult(status="success", ...).model_dump()
ClusterTaskResult(message, record, transaction_id) ==
    [ status |-> "success", message |-> message, result |-> record,
      transaction_id |-> transaction_id ]

\* Lines 316-318, 333-334: the grid of optimize_hdbscan_parameters.
GridCandidates ==
    { <<mcs, ms>> \in {2, 5, 10} \X {2, 5} : ms <= mcs }
\* Lines 313, 321, 400: the safe default.
DefaultParams == <<5, 5>>

\* Lines 330-334: the candidates in the order the loops visit them.
GridOrder == << <<2, 2>>, <<5, 2>>, <<5, 5>>, <<10, 2>>, <<10, 5>> >>

\* The outcome of one candidate fit on GridDocs documents: the fit raises
\* (lines 375-377), or it yields labels with num_clusters clusters and noise
\* documents labelled -1.  A cluster has two documents or more.
FitRaises == [raises |-> TRUE]
FitOutcomes ==
    {FitRaises} \cup
    { [num_clusters |-> c, noise |-> z] : c \in 0..(GridDocs \div 2), z \in 0..GridDocs }
IsFitOutcome(o) ==
    \/ o = FitRaises
    \/ /\ o \in FitOutcomes
       /\ IF o.num_clusters = 0 THEN o.noise = GridDocs
          ELSE o.noise <= GridDocs - 2 * o.num_clusters

\* Lines 349-358: the score of a fit, times GridDocs: -1 for one cluster or
\* none, otherwise num_clusters * (1 - noise_percentage).
Score(o) ==
    IF o.num_clusters <= 1 THEN -GridDocs ELSE o.num_clusters * (GridDocs - o.noise)

\* Lines 330-377: the loop from candidate i on.
RECURSIVE GridSearch(_, _, _, _)
GridSearch(outcomes, i, best_score, best_params) ==
    IF i > Len(GridOrder) THEN best_params
    ELSE IF outcomes[i] = FitRaises
    THEN GridSearch(outcomes, i + 1, best_score, best_params)
    ELSE IF Score(outcomes[i]) > best_score
    THEN GridSearch(outcomes, i + 1, Score(outcomes[i]), GridOrder[i])
    ELSE GridSearch(outcomes, i + 1, best_score, best_params)

\* optimize_hdbscan_parameters that returns the first candidate whose fit did
\* not raise.
optimize_hdbscan_parameters_first_fit(memory_high, outcomes) ==
    IF memory_high \/ \A i \in DOMAIN outcomes : outcomes[i] = FitRaises
    THEN DefaultParams
    ELSE GridOrder[CHOOSE i \in DOMAIN outcomes :
                      /\ outcomes[i] # FitRaises
                      /\ \A j \in 1..(i - 1) : outcomes[j] = FitRaises]

\* The loop with "score >= best_score": the last candidate of the highest
\* score wins, and a score of -1 replaces the default.
RECURSIVE GridSearchLastTie(_, _, _, _)
GridSearchLastTie(outcomes, i, best_score, best_params) ==
    IF i > Len(GridOrder) THEN best_params
    ELSE IF outcomes[i] = FitRaises
    THEN GridSearchLastTie(outcomes, i + 1, best_score, best_params)
    ELSE IF Score(outcomes[i]) >= best_score
    THEN GridSearchLastTie(outcomes, i + 1, Score(outcomes[i]), GridOrder[i])
    ELSE GridSearchLastTie(outcomes, i + 1, best_score, best_params)

optimize_hdbscan_parameters_last_tie(memory_high, outcomes) ==
    IF memory_high THEN DefaultParams
    ELSE GridSearchLastTie(outcomes, 1, -GridDocs, DefaultParams)

\* The loop without the try of lines 335-377 around a candidate: the first fit
\* that raises ends the search with the best candidate so far.
RECURSIVE GridSearchAbort(_, _, _, _)
GridSearchAbort(outcomes, i, best_score, best_params) ==
    IF i > Len(GridOrder) THEN best_params
    ELSE IF outcomes[i] = FitRaises
    THEN best_params
    ELSE IF Score(outcomes[i]) > best_score
    THEN GridSearchAbort(outcomes, i + 1, Score(outcomes[i]), GridOrder[i])
    ELSE GridSearchAbort(outcomes, i + 1, best_score, best_params)

optimize_hdbscan_parameters_abort(memory_high, outcomes) ==
    IF memory_high THEN DefaultParams
    ELSE GridSearchAbort(outcomes, 1, -GridDocs, DefaultParams)

\* optimize_hdbscan_parameters: the default under memory pressure (lines
\* 311-313), otherwise the first candidate of the highest score above -1, or
\* the default when no score is above -1 (lines 320-321, 369-371).
optimize_hdbscan_parameters(memory_high, outcomes) ==
    IF memory_high THEN DefaultParams
    ELSE GridSearch(outcomes, 1, -GridDocs, DefaultParams)

\* perform_hdbscan_clustering lines 442, 463-481: the number of clusters and
\* the core documents, one per non-noise label in ascending label order, each
\* the first row of maximal probability among the rows with that label.
\* len(set(labels)) without the "- (1 if -1 in labels else 0)" of line 442.
NumClusters_counting_noise(labels) ==
    Cardinality({ labels[i] : i \in DOMAIN labels })

NumClusters(labels) ==
    Cardinality({ labels[i] : i \in DOMAIN labels } \ {Noise})

RECURSIVE CoreDocsFrom(_, _, _, _)
CoreDocsFrom(df, labels, probs, l) ==
    IF \A i \in DOMAIN labels : labels[i] < l
    THEN <<>>
    ELSE LET members == { i \in DOMAIN labels : labels[i] = l }
             top == CHOOSE i \in members :
                        \A j \in members :
                            /\ probs[j] <= probs[i]
                            /\ probs[j] = probs[i] => i <= j
         IN (IF members = {} THEN <<>>
             ELSE <<CoreDocument(df[top], probs[top])>>)
            \o CoreDocsFrom(df, labels, probs, l + 1)

\* perform_hdbscan_clustering without the "if cluster_label == -1: continue"
\* of lines 467-468: the noise rows get a core document as well.
perform_hdbscan_clustering_with_noise(df, labels, probs) ==
    [ core_docs |-> CoreDocsFrom(df, labels, probs, Noise),
      num_clusters |-> NumClusters(labels) ]

perform_hdbscan_clustering(df, labels, probs) ==
    [ core_docs |-> CoreDocsFrom(df, labels, probs, 0),
      num_clusters |-> NumClusters(labels) ]

\* A labelling HDBSCAN can return for m rows with min_cluster_size mcs: k
\* clusters of mcs consecutive rows each, the remaining rows noise.
BlockLabels(m, mcs, k) ==
    [ i \in 1..m |-> IF i <= k * mcs THEN (i - 1) \div mcs ELSE Noise ]

\* The probabilities that go with it: 1.0 inside a cluster, 0 for noise.
BlockProbs(m, mcs, k) ==
    [ i \in 1..m |-> IF i <= k * mcs THEN ProbScale ELSE 0 ]

\* cluster_unit_documents that writes RUNNING_CLUSTERING before it looks at the
\* status of the previous result.
cluster_unit_documents_begin_write_first(r) ==
    /\ celery[r].pc = "cluster_queued"
    /\ LET prev_req == celery[r].arg
       IN /\ task_transaction' =
                 update_task_status_sync(task_transaction,
                     GetStr(prev_req, "transaction_id"), RUNNING_CLUSTERING, "", None, NoId)
          /\ IF prev_req.status # "success"
             THEN celery' = [celery EXCEPT ![r].pc = "analysis_queued"]
             ELSE celery' = [celery EXCEPT ![r].pc = "cluster_started"]
    /\ UNCHANGED <<clusters, vector_store, question_cluster, api, cancel_response,
                   status_response, grid, final_fit, update_call>>

\* Lines 77-95: a worker takes the cluster task.  A previous result that is
\* not a success is returned as it is; otherwise the task writes
\* RUNNING_CLUSTERING.
cluster_unit_documents_begin(r) ==
    /\ celery[r].pc = "cluster_queued"
    /\ LET prev_req == celery[r].arg
       IN IF prev_req.status # "success"
          THEN /\ celery' = [celery EXCEPT ![r].pc = "analysis_queued"]
               /\ UNCHANGED task_transaction
          ELSE /\ task_transaction' =
                      update_task_status_sync(task_transaction,
                          GetStr(prev_req, "transaction_id"), RUNNING_CLUSTERING, "", None, NoId)
               /\ celery' = [celery EXCEPT ![r].pc = "cluster_started"]
    /\ UNCHANGED <<clusters, vector_store, question_cluster, api, cancel_response,
                   status_response, grid, final_fit, update_call>>

\* Lines 282-294: an exception anywhere in the body (the vector store, a schema
\* validation, the insert) is caught: the task writes FAILURE, without a
\* message, and returns an error dict.
cluster_unit_documents_except(r) ==
    /\ celery[r].pc = "cluster_started"
    /\ task_transaction' =
           update_task_status_sync(task_transaction,
               GetStr(celery[r].arg, "transaction_id"), FAILURE, "", None, NoId)
    /\ celery' = [celery EXCEPT ![r].pc = "analysis_queued",
                                ![r].arg = ClusterError("Unexpected error during clustering"),
                                ![r].fetched = Len(celery[r].arg.result.thread_ids) > 0]
    /\ UNCHANGED <<clusters, vector_store, question_cluster, api, cancel_response,
                   status_response, grid, final_fit, update_call>>

\* Lines 144-166 and 257-280: the Cluster Run is inserted, the record is
\* written COMPLETED and the task returns its result.
PersistAndReturn(r, record, message, fit_raised, memory_guard) ==
    LET prev_transaction_id == GetStr(celery[r].arg, "transaction_id")
    IN /\ clusters' = Append(clusters, record)
       /\ task_transaction' =
              update_task_status_sync(task_transaction, prev_transaction_id,
                                      COMPLETED, "", None, NoId)
       /\ celery' = [celery EXCEPT
              ![r].pc = "analysis_queued",
              ![r].arg = ClusterTaskResult(message,
                             [record EXCEPT !.cluster_id = ToString(Len(clusters) + 1)],
                             prev_transaction_id),
              ![r].fetched = TRUE,
              ![r].fit_raised = fit_raised,
              ![r].memory_guard = memory_guard]

\* cluster_unit_documents that inserts a Cluster Run of no document before it
\* returns the error.
ReturnNoDocuments_persisting(r) ==
    /\ celery' = [celery EXCEPT
           ![r].pc = "analysis_queued",
           ![r].arg = ClusterError("No documents found for unit_id"),
           ![r].fetched = Len(celery[r].arg.result.thread_ids) > 0]
    /\ clusters' = Append(clusters, ClusterRecord(0, 0, 1, 0, <<>>, NoId))
    /\ UNCHANGED task_transaction

\* Lines 105-110 and 179-184: no embedding came back.
ReturnNoDocuments(r) ==
    /\ celery' = [celery EXCEPT
           ![r].pc = "analysis_queued",
           ![r].arg = ClusterError("No documents found for unit_id"),
           ![r].fetched = Len(celery[r].arg.result.thread_ids) > 0]
    /\ UNCHANGED <<task_transaction, clusters>>

\* Lines 97-166: fewer than five thread ids; every embedding that comes back
\* is a core document.
cluster_unit_documents_small(r) ==
    /\ celery[r].pc = "cluster_started"
    /\ LET thread_ids == celery[r].arg.result.thread_ids
           embeddings_df == get_embeddings_from_db(vector_store, thread_ids)
           core_docs == DirectCoreDocs(embeddings_df)
       IN /\ Len(thread_ids) < SmallCorpus
          /\ IF Len(embeddings_df) = 0
             THEN ReturnNoDocuments(r)
             ELSE PersistAndReturn(r,
                      ClusterRecord(Len(embeddings_df), Len(core_docs), 1, Len(core_docs),
                                    core_docs, NoId),
                      "Retrieved questions directly (no clustering needed)", FALSE, FALSE)
    /\ UNCHANGED <<vector_store, question_cluster, api, cancel_response,
                   status_response, grid, final_fit, update_call>>

\* Lines 168-280: five thread ids or more.  memory_high_1 and memory_high_2
\* are what get_memory_usage() > 1000 gives in optimize_hdbscan_parameters and
\* in perform_hdbscan_clustering, best is the candidate the grid search ends
\* with, and the final fit either raises or finds k clusters.
cluster_unit_documents_large(r, memory_high_1, best, memory_high_2, solver_raises, k) ==
    /\ celery[r].pc = "cluster_started"
    /\ LET thread_ids == celery[r].arg.result.thread_ids
           embeddings_df == get_embeddings_from_db(vector_store, thread_ids)
           m == Len(embeddings_df)
           \* lines 192-203
           kwargs == celery[r].kwargs
           optimized == TruthyV(kwargs.auto_optimize) /\ m >= 5
           chosen == IF memory_high_1 THEN DefaultParams ELSE best
           min_cluster_size == IF optimized THEN IntV(chosen[1])
                               ELSE kwargs.min_cluster_size
           min_samples == IF optimized THEN IntV(chosen[2]) ELSE kwargs.min_samples
           \* lines 210-230: HDBSCAN rejects a min_cluster_size that is not an int
           fit_raises == memory_high_2 \/ ~IsIntV(min_cluster_size) \/ solver_raises
           size == IF IsIntV(min_cluster_size) THEN min_cluster_size.int ELSE 1
           fit == perform_hdbscan_clustering(embeddings_df,
                      BlockLabels(m, size, k), BlockProbs(m, size, k))
           core_docs == IF fit_raises
                        THEN DirectCoreDocs(DfHead(embeddings_df, FallbackDocs))
                        ELSE fit.core_docs
           num_clusters == IF fit_raises THEN Len(core_docs) ELSE fit.num_clusters
       IN /\ Len(thread_ids) >= SmallCorpus
          /\ k <= m \div size
          /\ IF m = 0
             THEN ReturnNoDocuments(r)
             ELSE IF ~IsIntV(min_cluster_size)
             THEN \* line 236: ClusteringParameters validates an int and raises;
                  \* lines 282-294 catch it
                  /\ task_transaction' =
                         update_task_status_sync(task_transaction,
                             GetStr(celery[r].arg, "transaction_id"), FAILURE, "", None, NoId)
                  /\ celery' = [celery EXCEPT
                        ![r].pc = "analysis_queued",
                        ![r].arg = ClusterError("Unexpected error during clustering"),
                        ![r].fetched = TRUE,
                        ![r].fit_raised = TRUE,
                        ![r].memory_guard = optimized /\ memory_high_1]
                  /\ UNCHANGED clusters
             ELSE PersistAndReturn(r,
                      ClusterRecord(m, num_clusters, min_cluster_size.int, min_samples.int,
                                    core_docs, NoId),
                      "Clustering completed successfully", fit_raises,
                      optimized /\ memory_high_1)
    /\ UNCHANGED <<vector_store, question_cluster, api, cancel_response,
                   status_response, grid, final_fit, update_call>>

(***************************************************************************)
(* app/tasks/agents_tasks.py                                               *)
(***************************************************************************)
\* ClusterTaskResult(**clustering_result).dict(): the four fields of
\* TaskResult, None for the ones the dict does not hold; any other key of the
\* dict is dropped.
ClusterTaskResultDict(d) ==
    [ status |-> d.status,
      message |-> GetStr(d, "message"),
      result |-> Get(d, "result"),
      transaction_id |-> GetStr(d, "transaction_id") ]

\* ClusterTaskResult(**clustering_result) validates: a result that is there
\* has the fields of a ClusterRecord.
IsClusterRecord(v) ==
    {"unit_id", "num_documents", "num_clusters", "parameters", "core_docs"} \subseteq DOMAIN v
ValidClusterTaskResult(d) ==
    LET result == Get(d, "result") IN result = None \/ IsClusterRecord(result)

\* result.model_dump() of the crew's report for these core documents.
CrewReport(core_docs) ==
    [ questions |-> << [ theme |-> "theme", summary |-> "summary",
                         questionIds |-> { core_docs[i].id : i \in DOMAIN core_docs } ] >> ]

\* Lines 76-80, 91-95: the dicts the task returns without a report.
AnalysisWarning == [ status |-> "warning",
                     message |-> "No clustered questions found to analyze",
                     unit_id |-> UnitId ]
AnalysisUnitNotFound == [ status |-> "error",
                          message |-> "Unit data not found for unit_id",
                          unit_id |-> UnitId ]
\* Lines 182-188
AnalysisSuccess(report, transaction_id) ==
    [ status |-> "success", message |-> "Agent analysis completed successfully",
      unit_id |-> UnitId, result |-> report, transaction_id |-> transaction_id ]

\* create_question_clusters and lines 155-179: per theme of the report, the
\* document with the same theme, unit and dates is updated (question ids and
\* transaction ids are added to the ones it has) or a new one is inserted.
UpsertQuestionClusters(collection, report, transaction_id) ==
    LET key(q) == [ theme |-> q.theme, unit_id |-> UnitId,
                    weekStart |-> StartDate, weekEnd |-> EndDate ]
        existing(q) == { c \in collection : c.key = key(q) }
        merged(q) ==
            IF existing(q) = {}
            THEN [ key |-> key(q), question_ids |-> q.questionIds,
                   transaction_ids |-> {transaction_id} ]
            ELSE LET e == CHOOSE c \in existing(q) : TRUE
                 IN [ key |-> key(q),
                      question_ids |-> e.question_ids \cup q.questionIds,
                      transaction_ids |-> e.transaction_ids \cup {transaction_id} ]
        qs == { report.questions[i] : i \in DOMAIN report.questions }
    IN { c \in collection : \A q \in qs : c.key # key(q) } \cup { merged(q) : q \in qs }

\* run_faq_agent_analysis that a worker may take while the cluster task of
\* the run is still executing.
run_faq_agent_analysis_begin_early(r) ==
    /\ celery[r].pc \in {"cluster_started", "analysis_queued"}
    /\ ~celery[r].revoked
    /\ LET clustering_result == celery[r].arg
           transaction_id == GetStr(clustering_result, "transaction_id")
           parsed == ClusterTaskResultDict(clustering_result)
       IN /\ task_transaction' =
                 update_task_status_sync(task_transaction, transaction_id,
                                         RUNNING_AGENT_ANALYSIS, "", None, NoId)
          /\ IF ~ValidClusterTaskResult(clustering_result)
             THEN \* line 55 raises ValidationError
                  celery' = [celery EXCEPT ![r].pc = "chain_failed",
                                           ![r].raised = "analysis"]
             ELSE IF parsed.status = "error"
             THEN \* lines 58-59
                  celery' = [celery EXCEPT ![r].pc = "chain_done", ![r].arg = parsed]
             ELSE IF parsed.result = None
             THEN \* line 61: None has no cluster_id
                  celery' = [celery EXCEPT ![r].pc = "chain_failed",
                                           ![r].raised = "analysis"]
             ELSE IF Len(parsed.result.core_docs) = 0
             THEN \* lines 75-80
                  celery' = [celery EXCEPT ![r].pc = "chain_done",
                                           ![r].arg = AnalysisWarning]
             ELSE celery' = [celery EXCEPT ![r].pc = "analysis_started"]
    /\ UNCHANGED <<clusters, vector_store, question_cluster, api, cancel_response,
                   status_response, grid, final_fit, update_call>>

\* Lines 44-80: a worker takes the analysis task.  It writes
\* RUNNING_AGENT_ANALYSIS to the record the previous result names, then parses
\* the previous result; an "error" result is returned as the parsed model's
\* dict; a result with no core document is answered with a warning.
run_faq_agent_analysis_begin(r) ==
    /\ celery[r].pc = "analysis_queued"
    /\ ~celery[r].revoked
    /\ LET clustering_result == celery[r].arg
           transaction_id == GetStr(clustering_result, "transaction_id")
           parsed == ClusterTaskResultDict(clustering_result)
       IN /\ task_transaction' =
                 update_task_status_sync(task_transaction, transaction_id,
                                         RUNNING_AGENT_ANALYSIS, "", None, NoId)
          /\ IF ~ValidClusterTaskResult(clustering_result)
             THEN \* line 55 raises ValidationError
                  celery' = [celery EXCEPT ![r].pc = "chain_failed",
                                           ![r].raised = "analysis"]
             ELSE IF parsed.status = "error"
             THEN \* lines 58-59
                  celery' = [celery EXCEPT ![r].pc = "chain_done", ![r].arg = parsed]
             ELSE IF parsed.result = None
             THEN \* line 61: None has no cluster_id
                  celery' = [celery EXCEPT ![r].pc = "chain_failed",
                                           ![r].raised = "analysis"]
             ELSE IF Len(parsed.result.core_docs) = 0
             THEN \* lines 75-80
                  celery' = [celery EXCEPT ![r].pc = "chain_done",
                                           ![r].arg = AnalysisWarning]
             ELSE celery' = [celery EXCEPT ![r].pc = "analysis_started"]
    /\ UNCHANGED <<clusters, vector_store, question_cluster, api, cancel_response,
                   status_response, grid, final_fit, update_call>>

\* Lines 88-95: the unit is not in the database.
run_faq_agent_analysis_no_unit(r) ==
    /\ celery[r].pc = "analysis_started"
    /\ celery' = [celery EXCEPT ![r].pc = "chain_done", ![r].arg = AnalysisUnitNotFound]
    /\ UNCHANGED <<task_transaction, clusters, vector_store, question_cluster, api, cancel_response,
                   status_response, grid, final_fit, update_call>>

\* Lines 88-134: the crew service (or the unit lookup) raises; nothing catches it.
run_faq_agent_analysis_raise(r) ==
    /\ celery[r].pc = "analysis_started"
    /\ celery' = [celery EXCEPT ![r].pc = "chain_failed", ![r].raised = "analysis"]
    /\ UNCHANGED <<task_transaction, clusters, vector_store, question_cluster, api, cancel_response,
                   status_response, grid, final_fit, update_call>>

\* Lines 133-188: the crew returns its report; the task writes "completed" with
\* the report, upserts the question clusters and returns.  store_raises: the
\* question-cluster code raises after the status write.
run_faq_agent_analysis_finish(r, store_raises) ==
    /\ celery[r].pc = "analysis_started"
    /\ LET clustering_result == celery[r].arg
           transaction_id == GetStr(clustering_result, "transaction_id")
           report == CrewReport(clustering_result.result.core_docs)
       IN /\ task_transaction' =
                 update_task_status_sync(task_transaction, transaction_id,
                                         COMPLETED, "", report, NoId)
          /\ IF store_raises
             THEN /\ celery' = [celery EXCEPT ![r].pc = "chain_failed",
                                              ![r].raised = "analysis"]
                  /\ UNCHANGED question_cluster
             ELSE /\ question_cluster' =
                         UpsertQuestionClusters(question_cluster, report, transaction_id)
                  /\ celery' = [celery EXCEPT
                         ![r].pc = "chain_done",
                         ![r].arg = AnalysisSuccess(report, transaction_id)]
    /\ UNCHANGED <<clusters, vector_store, api, cancel_response,
                   status_response, grid, final_fit, update_call>>

(***************************************************************************)
(* app/api/api_v1/endpoints/tasks.py: cancel_task_chain                    *)
(***************************************************************************)
\* Line 209: the status cancel_task_chain names.
CANCELLED == "cancelled"

\* Lines 180-223 for a transaction that exists.  Without a stored Celery id
\* the 404 raised at line 189 is caught at line 219 and answered as 500.  With
\* one, the id is revoked (lines 192-204; the task has no children on record);
\* then line 209 evaluates TaskStatus.CANCELLED: for a member of the
\* enumeration the status is written and the answer is 200, for a name the
\* enumeration does not have the attribute lookup raises, nothing is written
\* and line 219 answers 500.
cancel_task_chain(r) ==
    /\ r \in DOMAIN task_transaction
    /\ IF task_transaction[r].celery_task_id = NoId
       THEN /\ cancel_response' = [cancel_response EXCEPT ![r] = 500]
            /\ UNCHANGED <<task_transaction, celery>>
       ELSE /\ celery' = [celery EXCEPT ![r].revoked = TRUE]
            /\ IF CANCELLED \in TaskStatus
               THEN /\ task_transaction' =
                           update_task_status_sync(task_transaction, Oid(r), CANCELLED,
                                                   "", None, NoId)
                    /\ cancel_response' = [cancel_response EXCEPT ![r] = 200]
               ELSE /\ cancel_response' = [cancel_response EXCEPT ![r] = 500]
                    /\ UNCHANGED task_transaction
    /\ UNCHANGED <<clusters, vector_store, question_cluster, api,
                   status_response, grid, final_fit, update_call>>

\* celery_app.control.revoke(id, terminate=True): a worker that receives the
\* revoked task discards it, and a worker that is executing it is terminated.
celery_revoked(r) ==
    /\ celery[r].revoked
    /\ celery[r].pc \in {"analysis_queued", "analysis_started"}
    /\ celery' = [celery EXCEPT ![r].pc = "chain_revoked"]
    /\ UNCHANGED <<task_transaction, clusters, vector_store, question_cluster, api,
                   cancel_response, status_response, grid, final_fit, update_call>>

(***************************************************************************)
(* The pipeline: any number of starts up to MaxRuns, the workers taking    *)
(* the tasks of each chain, and cancel requests.  What the forum, the      *)
(* vector store, the memory probe and the solver answer is drawn from      *)
(* representative values: no thread, one thread (below SmallCorpus) or     *)
(* MaxThreads threads; the default parameters or the smallest candidate;   *)
(* no cluster or one cluster.                                              *)
(***************************************************************************)
ChainThreadCounts == {0, 1, MaxThreads}
ChainBest == {DefaultParams, <<2, 2>>}
ChainClusterCounts == {0, 1}

Next ==
    \E r \in Runs :
        \/ run_chain_task_submit(r)
        \/ run_chain_task_store(r)
        \/ fetch_and_store_threads_by_unit_begin(r)
        \/ fetch_and_store_threads_by_unit_raise(r)
        \/ \E n \in ChainThreadCounts, upsert_ok \in BOOLEAN :
               fetch_and_store_threads_by_unit_finish(r, n, upsert_ok)
        \/ cluster_unit_documents_begin(r)
        \/ cluster_unit_documents_except(r)
        \/ cluster_unit_documents_small(r)
        \/ \E memory_high_1 \in BOOLEAN, memory_high_2 \in BOOLEAN, solver_raises \in BOOLEAN :
           \E best \in (IF memory_high_1 THEN {DefaultParams} ELSE ChainBest),
              k \in (IF memory_high_2 \/ solver_raises THEN {0} ELSE ChainClusterCounts) :
               cluster_unit_documents_large(r, memory_high_1, best, memory_high_2,
                                            solver_raises, k)
        \/ run_faq_agent_analysis_begin(r)
        \/ run_faq_agent_analysis_no_unit(r)
        \/ run_faq_agent_analysis_raise(r)
        \/ \E store_raises \in BOOLEAN : run_faq_agent_analysis_finish(r, store_raises)
        \/ cancel_task_chain(r)
        \/ celery_revoked(r)

Spec == Init /\ [][Next]_vars

(***************************************************************************)
(* app/api/api_v1/endpoints/tasks.py: get_transaction_status               *)
(***************************************************************************)
\* Lines 95-114 for the id of run r.  get_transaction_by_id returns the
\* record or None.  For None line 100 raises HTTPException(404) inside the
\* try, and the except Exception of line 110 turns whatever was raised into
\* HTTPException(500).
get_transaction_status(r) ==
    LET task_status == IF r \in DOMAIN task_transaction THEN task_transaction[r] ELSE None
        raised_in_try == IF task_status = None THEN 404 ELSE 0
        status_code == IF raised_in_try # 0 THEN 500 ELSE 200
    IN /\ status_response' =
              [ transaction_id |-> Oid(r), status_code |-> status_code,
                \* line 106: progress of the record in the body of a 200
                progress |-> IF status_code = 200 THEN task_status.progress ELSE 0 ]
       /\ UNCHANGED <<task_transaction, clusters, vector_store, question_cluster, celery, api,
                      cancel_response, grid, final_fit, update_call>>

\* The pipeline with status requests.
NextStatus ==
    \/ Next
    \/ \E r \in Runs : get_transaction_status(r)

SpecStatus == Init /\ [][NextStatus]_vars

(***************************************************************************)
(* The cluster task and the analysis task taken on their own: the cluster  *)
(* task is a registered Celery task and runs on whatever previous result   *)
(* it is sent.  The Run Record of the run exists; the previous result, the *)
(* bound arguments and the content of the vector store are drawn in        *)
(* InitStage, the answers of the memory probe and the solver in NextStage. *)
(***************************************************************************)
\* A tagged error result of an ingest stage: StoringTaskResult(status="error",
\* ...).model_dump(), and the same without a transaction id.
StoringTaskError(transaction_id) ==
    [ status |-> "error", message |-> "No threads found to store",
      result |-> None, transaction_id |-> transaction_id ]

PrevResults ==
    { StoringTaskResult(n, Oid(1)) : n \in 0..MaxThreads } \cup
    { StoringTaskError(Oid(1)), StoringTaskError(NoId),
      [status |-> "warning", message |-> "No threads found to store", unit_id |-> UnitId] }

\* The Run Record as the ingest stage leaves it when it returns prev.
RecordAfterIngest(prev) ==
    IF prev.status = "success"
    THEN [ create_task(EmptyDict) EXCEPT
             !.status = INSERTING_SUCCESS,
             !.progress = ProgressOf(INSERTING_SUCCESS),
             !.result = prev,
             !.celery_task_id = CeleryId(1) ]
    ELSE [ create_task(EmptyDict) EXCEPT
             !.status = ERROR,
             !.progress = ProgressOf(ERROR),
             !.error_message = "No threads found to store",
             !.celery_task_id = CeleryId(1) ]

InitStage ==
    /\ \E prev \in PrevResults, kwargs \in {ClusterArgs, UndatedClusterArgs, DefaultClusterArgs} :
          /\ task_transaction = << RecordAfterIngest(prev) >>
          /\ celery = [ r \in Runs |->
                          IF r = 1
                          THEN [ChainIdle EXCEPT !.pc = "cluster_queued", !.arg = prev,
                                                 !.kwargs = kwargs]
                          ELSE ChainIdle ]
    /\ clusters = <<>>
    /\ \E stored \in 0..MaxThreads : vector_store = 1..stored
    /\ question_cluster = {}
    /\ api = [r \in Runs |-> IF r = 1 THEN "answered" ELSE "idle"]
    /\ cancel_response = [r \in Runs |-> 0]
    /\ status_response = NoRequest
    /\ grid = NoGrid
    /\ final_fit = NoFit
    /\ update_call = NoCall

NextStage ==
    \/ cluster_unit_documents_begin(1)
    \/ cluster_unit_documents_except(1)
    \/ cluster_unit_documents_small(1)
    \/ \E memory_high_1 \in BOOLEAN, memory_high_2 \in BOOLEAN, solver_raises \in BOOLEAN :
       \E best \in (IF memory_high_1 THEN {DefaultParams} ELSE GridCandidates),
          k \in (IF memory_high_2 \/ solver_raises THEN {0} ELSE 0..(MaxThreads \div 2)) :
           cluster_unit_documents_large(1, memory_high_1, best, memory_high_2,
                                        solver_raises, k)
    \/ run_faq_agent_analysis_begin(1)
    \/ run_faq_agent_analysis_no_unit(1)
    \/ run_faq_agent_analysis_raise(1)
    \/ \E store_raises \in BOOLEAN : run_faq_agent_analysis_finish(1, store_raises)

SpecStage == InitStage /\ [][NextStage]_vars

(***************************************************************************)
(* update_task_status_sync taken on its own: a collection of one or two    *)
(* Run Records as a start or the ingest task leaves them, and one call     *)
(* with any id (of a record or of none), any status and each optional      *)
(* argument absent, empty or given.                                        *)
(***************************************************************************)
StoredRecords ==
    { create_task(DatedRequest),
      RecordAfterIngest(StoringTaskResult(1, Oid(1))),
      RecordAfterIngest(StoringTaskError(Oid(1))) }
MaxStored == 2
CallIds == { Oid(r) : r \in 1..(MaxStored + 1) } \cup {NoId}
CallResults == { None, EmptyDict, CrewReport(DirectCoreDocs(<<1>>)) }

InitUpdate ==
    /\ \E n \in 1..MaxStored : task_transaction \in [1..n -> StoredRecords]
    /\ clusters = <<>>
    /\ vector_store = {}
    /\ question_cluster = {}
    /\ celery = [r \in Runs |-> ChainIdle]
    /\ api = [r \in Runs |-> "idle"]
    /\ cancel_response = [r \in Runs |-> 0]
    /\ status_response = NoRequest
    /\ grid = NoGrid
    /\ final_fit = NoFit
    /\ update_call = NoCall

\* One call; lines 80-84 and 110-116 give what it returns: None when there is
\* no document or something raised, the updated document otherwise.
run_update_task_status_sync ==
    /\ update_call = NoCall
    /\ \E task_id \in CallIds, status \in TaskStatus, error_message \in {"", "boom"},
          result \in CallResults, celery_task_id \in {NoId, CeleryId(1)} :
          /\ task_transaction' =
                 update_task_status_sync(task_transaction, task_id, status, error_message,
                                         result, celery_task_id)
          /\ update_call' =
                 [ task_id |-> task_id, status |-> status, error_message |-> error_message,
                   result |-> result, celery_task_id |-> celery_task_id,
                   returned |-> IF \E r \in DOMAIN task_transaction : Oid(r) = task_id
                                THEN "document" ELSE "None" ]
    /\ UNCHANGED <<clusters, vector_store, question_cluster, celery, api, cancel_response,
                   status_response, grid, final_fit>>

NextUpdate == run_update_task_status_sync

SpecUpdate == InitUpdate /\ [][NextUpdate]_vars

(***************************************************************************)
(* Redelivery.  celery_worker.py sets task_acks_late: the message of a     *)
(* task is acknowledged when the task has returned, so a worker that is    *)
(* lost after the body of the task has run and before the acknowledgement  *)
(* leaves the message with the broker, which delivers it again with the    *)
(* same arguments.                                                         *)
(***************************************************************************)
\* The cluster task runs its direct path (lines 97-159: insert the Cluster
\* Run, write COMPLETED) and the worker is lost before the task returns.
cluster_unit_documents_small_lost(r) ==
    /\ celery[r].pc = "cluster_started"
    /\ Len(clusters) < MaxClusterRuns
    /\ LET thread_ids == celery[r].arg.result.thread_ids
           embeddings_df == get_embeddings_from_db(vector_store, thread_ids)
           core_docs == DirectCoreDocs(embeddings_df)
       IN /\ Len(thread_ids) < SmallCorpus
          /\ Len(embeddings_df) > 0
          /\ clusters' = Append(clusters,
                 ClusterRecord(Len(embeddings_df), Len(core_docs), 1, Len(core_docs),
                               core_docs, NoId))
          /\ task_transaction' =
                 update_task_status_sync(task_transaction,
                     GetStr(celery[r].arg, "transaction_id"), COMPLETED, "", None, NoId)
    /\ celery' = [celery EXCEPT ![r].pc = "cluster_queued", ![r].fetched = TRUE]
    /\ UNCHANGED <<vector_store, question_cluster, api, cancel_response,
                   status_response, grid, final_fit, update_call>>

NextRedeliver ==
    \/ NextStage
    \/ cluster_unit_documents_small_lost(1)

SpecRedeliver == InitStage /\ [][NextRedeliver]_vars

(***************************************************************************)
(* optimize_hdbscan_parameters taken on its own: the memory probe and the  *)
(* outcome of every candidate fit are drawn in InitGrid, and the search    *)
(* runs over them.                                                         *)
(***************************************************************************)
InitGrid ==
    /\ task_transaction = <<>>
    /\ clusters = <<>>
    /\ vector_store = {}
    /\ question_cluster = {}
    /\ celery = [r \in Runs |-> ChainIdle]
    /\ api = [r \in Runs |-> "idle"]
    /\ cancel_response = [r \in Runs |-> 0]
    /\ status_response = NoRequest
    /\ \E memory_high \in BOOLEAN,
          outcomes \in [DOMAIN GridOrder -> { o \in FitOutcomes : IsFitOutcome(o) }] :
          grid = [outcomes |-> outcomes, memory_high |-> memory_high, best_params |-> <<>>]
    /\ final_fit = NoFit
    /\ update_call = NoCall

run_optimize_hdbscan_parameters ==
    /\ grid.best_params = <<>>
    /\ grid' = [grid EXCEPT
           !.best_params = optimize_hdbscan_parameters(grid.memory_high, grid.outcomes)]
    /\ UNCHANGED <<task_transaction, clusters, vector_store, question_cluster, celery, api,
                   cancel_response, status_response, final_fit, update_call>>

NextGrid == run_optimize_hdbscan_parameters

SpecGrid == InitGrid /\ [][NextGrid]_vars

(***************************************************************************)
(* perform_hdbscan_clustering taken on its own: the rows and what the fit  *)
(* returns for them are drawn in InitFit.  HDBSCAN labels the clusters     *)
(* 0, 1, ... without a gap, a cluster has two rows or more, and a noise    *)
(* row has probability 0.                                                  *)
(***************************************************************************)
FitDocs == 4
FitLabels == {Noise, 0, 1}

IsFit(labels, probs) ==
    /\ \A i \in DOMAIN labels : labels[i] = Noise => probs[i] = 0
    /\ \A i \in DOMAIN labels :
          labels[i] # Noise =>
            /\ \E j \in DOMAIN labels : j # i /\ labels[j] = labels[i]
            /\ labels[i] > 0 => \E j \in DOMAIN labels : labels[j] = labels[i] - 1

InitFit ==
    /\ task_transaction = <<>>
    /\ clusters = <<>>
    /\ vector_store = {}
    /\ question_cluster = {}
    /\ celery = [r \in Runs |-> ChainIdle]
    /\ api = [r \in Runs |-> "idle"]
    /\ cancel_response = [r \in Runs |-> 0]
    /\ status_response = NoRequest
    /\ grid = NoGrid
    /\ update_call = NoCall
    /\ \E m \in 1..FitDocs :
       \E labels \in [1..m -> FitLabels], probs \in [1..m -> 0..ProbScale] :
          /\ IsFit(labels, probs)
          /\ final_fit = [ NoFit EXCEPT !.df = [i \in 1..m |-> m + 1 - i],
                                        !.labels = labels,
                                        !.probabilities = probs ]

run_perform_hdbscan_clustering ==
    /\ ~final_fit.returned
    /\ LET result == perform_hdbscan_clustering(final_fit.df, final_fit.labels,
                                                final_fit.probabilities)
       IN final_fit' = [final_fit EXCEPT !.returned = TRUE,
                                         !.core_docs = result.core_docs,
                                         !.num_clusters = result.num_clusters]
    /\ UNCHANGED <<task_transaction, clusters, vector_store, question_cluster, celery, api,
                   cancel_response, status_response, grid, update_call>>

NextFit == run_perform_hdbscan_clustering

SpecFit == InitFit /\ [][NextFit]_vars

(***************************************************************************)
(* Concurrent runs: one start more than MaxRuns, so that there are always  *)
(* two chains at least, each taken by the workers through its three tasks. *)
(* The forum answers with no thread or with one, so that every chain has a *)
(* small corpus.                                                           *)
(***************************************************************************)
PairRuns == 1..(MaxRuns + 1)
PairThreadCounts == {0, 1}

InitPair ==
    /\ task_transaction = <<>>
    /\ clusters = <<>>
    /\ vector_store = {}
    /\ question_cluster = {}
    /\ celery = [r \in PairRuns |-> ChainIdle]
    /\ api = [r \in PairRuns |-> "idle"]
    /\ cancel_response = [r \in PairRuns |-> 0]
    /\ status_response = NoRequest
    /\ grid = NoGrid
    /\ final_fit = NoFit
    /\ update_call = NoCall

NextPair ==
    \E r \in PairRuns :
        \/ run_chain_task_submit(r)
        \/ run_chain_task_store(r)
        \/ fetch_and_store_threads_by_unit_begin(r)
        \/ \E n \in PairThreadCounts : fetch_and_store_threads_by_unit_finish(r, n, TRUE)
        \/ cluster_unit_documents_begin(r)
        \/ cluster_unit_documents_small(r)
        \/ run_faq_agent_analysis_begin(r)
        \/ run_faq_agent_analysis_finish(r, FALSE)

SpecPair == InitPair /\ [][NextPair]_vars

(***************************************************************************)
(* Properties.                                                             *)
(***************************************************************************)
Records == DOMAIN task_transaction
StatusOf(r) == task_transaction[r].status

\* The documented state machine in the names of TaskStatus: the main line in
\* order, and the terminal statuses.
MainLine ==
    << RECEIVED, PENDING, RUNNING_FETCH_THREADS, INSERTING_SUCCESS, RUNNING_CLUSTERING,
       FINISH_CLUSTERING, RUNNING_AGENT_ANALYSIS, COMPLETED >>
Rank(status) == CHOOSE i \in DOMAIN MainLine : MainLine[i] = status
OnMainLine(status) == \E i \in DOMAIN MainLine : MainLine[i] = status
TerminalStatuses == {COMPLETED, SUCCESS, FAILURE, CANCELLED}
\* The same with ERROR, the status the ingest task writes when it gives up.
EndStatuses == TerminalStatuses \cup {ERROR}

\* A change of status the documented state machine allows: forward along the
\* main line, or from a non-terminal status to FAILURE or CANCELLED.
DocumentedChange(old, new) ==
    \/ /\ OnMainLine(old) /\ OnMainLine(new)
       /\ Rank(old) < Rank(new)
    \/ /\ old \notin TerminalStatuses
       /\ new \in {FAILURE, CANCELLED}

\* The cluster task of run r returns a success in this step.
ClusterSucceeds(r) ==
    /\ celery[r].pc = "cluster_started"
    /\ celery'[r].pc = "analysis_queued"
    /\ celery'[r].arg.status = "success"

\* C1: every change of a Run Record's status is a transition of the
\* documented state machine (forward along RECEIVED, PENDING, RUNNING_INGEST,
\* INGEST_DONE, RUNNING_CLUSTER, CLUSTER_DONE, RUNNING_ANALYZE, COMPLETED, or
\* from a non-terminal status to FAILURE or CANCELLED), and the cluster stage
\* leaves the record at CLUSTER_DONE.
C1_DocumentedTransitions ==
    [][ \A r \in Records :
          /\ StatusOf(r) # task_transaction'[r].status =>
                DocumentedChange(StatusOf(r), task_transaction'[r].status)
          /\ ClusterSucceeds(r) => task_transaction'[r].status = FINISH_CLUSTERING
      ]_vars

\* C2: terminal statuses are absorbing: once the status of a Run Record is
\* COMPLETED, FAILURE or CANCELLED, no step changes it.
C2_TerminalAbsorbing ==
    [][ \A r \in Records :
          StatusOf(r) \in {COMPLETED, FAILURE, CANCELLED} =>
              task_transaction'[r].status = StatusOf(r)
      ]_vars

\* C3: in every reachable state, the progress of every Run Record is the
\* progress-table value of its status.
C3_ProgressFollowsStatus ==
    \A r \in Records :
        /\ StatusOf(r) \in DOMAIN TASK_STATUS_PROGRESS
        /\ task_transaction[r].progress = TASK_STATUS_PROGRESS[StatusOf(r)]

\* C3 witness: a record that a stage has updated, with the progress of the
\* status it wrote.
C3_Witness ==
    \E r \in Records :
        /\ StatusOf(r) = RUNNING_CLUSTERING
        /\ task_transaction[r].progress = 40

\* C4: the progress table is total over the enumeration with the documented
\* values, every status a Run Record holds is a member of the enumeration,
\* and so is the status cancel writes: a cancel that got as far as revoking
\* the chain writes its status and answers 200.
C4_ProgressTableTotal ==
    /\ DOMAIN TASK_STATUS_PROGRESS = TaskStatus
    /\ TASK_STATUS_PROGRESS[RECEIVED] = 0
    /\ TASK_STATUS_PROGRESS[PENDING] = 0
    /\ TASK_STATUS_PROGRESS[RUNNING_FETCH_THREADS] = 10
    /\ TASK_STATUS_PROGRESS[INSERTING_SUCCESS] = 20
    /\ TASK_STATUS_PROGRESS[RUNNING_CLUSTERING] = 40
    /\ TASK_STATUS_PROGRESS[FINISH_CLUSTERING] = 60
    /\ TASK_STATUS_PROGRESS[RUNNING_AGENT_ANALYSIS] = 80
    /\ TASK_STATUS_PROGRESS[COMPLETED] = 100
    /\ TASK_STATUS_PROGRESS[FAILURE] = 0
    /\ \A r \in Records : StatusOf(r) \in TaskStatus
    /\ \A r \in Records :
          celery[r].revoked =>
              /\ cancel_response[r] = 200
              /\ CANCELLED \in DOMAIN TASK_STATUS_PROGRESS

\* C5: in every reachable state of every Run Record, completed_at is set if
\* and only if the status is terminal (success, failure or cancelled).
C5_CompletedAtIffTerminal ==
    \A r \in Records :
        task_transaction[r].completed_at <=> StatusOf(r) \in TerminalStatuses

\* C6: when the cluster task takes a previous result whose status is not
\* "success", it returns that result as it is: the chain passes the same
\* object on to the analysis task, no Run Record changes, no embedding is
\* fetched and no Cluster Run is inserted.
C6_ClusterForwardsError ==
    [][ \A r \in Runs :
          ( /\ celery[r].pc = "cluster_queued"
            /\ celery[r].arg.status # "success"
            /\ celery'[r] # celery[r] )
          => /\ celery'[r].pc = "analysis_queued"
             /\ celery'[r].arg = celery[r].arg
             /\ celery'[r].raised = "none"
             /\ ~celery'[r].fetched
             /\ task_transaction' = task_transaction
             /\ clusters' = clusters
             /\ vector_store' = vector_store
      ]_vars

\* C6 witness: the cluster task has returned the tagged error of the ingest
\* stage, transaction id included, and nothing was clustered.
C6_Witness ==
    /\ celery[1].pc = "analysis_queued"
    /\ celery[1].arg = StoringTaskError(Oid(1))
    /\ StatusOf(1) = ERROR
    /\ clusters = <<>>

\* C7: when the analysis task takes a previous result that is not a success,
\* it updates no Run Record, does not raise and returns the result it was
\* given, unchanged.
C7_AnalysisForwardsError ==
    [][ \A r \in Runs :
          ( /\ celery[r].pc = "analysis_queued"
            /\ celery[r].arg.status # "success"
            /\ celery'[r].pc \notin {"analysis_queued", "chain_revoked"} )
          => /\ celery'[r].pc = "chain_done"
             /\ celery'[r].raised = "none"
             /\ celery'[r].arg = celery[r].arg
             /\ task_transaction' = task_transaction
      ]_vars

\* The chain of run r has stopped and start has made its status write.
ChainStopped(r) ==
    /\ celery[r].pc \in {"chain_done", "chain_failed"}
    /\ api[r] = "answered"
\* A stage of run r raised or returned a result tagged "error".
StageFailed(r) ==
    \/ celery[r].raised # "none"
    \/ celery[r].arg.status = "error"

\* C8: a Run Record with status FAILURE has a non-empty error_message, and
\* when a stage of a run reported an error or raised, the run ends with
\* status FAILURE, progress 0 and a non-empty error_message.
C8_FailureHasMessage ==
    \A r \in Records :
        /\ StatusOf(r) = FAILURE => task_transaction[r].error_message # ""
        /\ (ChainStopped(r) /\ StageFailed(r)) =>
              /\ StatusOf(r) = FAILURE
              /\ task_transaction[r].progress = 0
              /\ task_transaction[r].error_message # ""

\* C9: no run whose chain has stopped is left in RECEIVED, PENDING or one of
\* the RUNNING_* / *_DONE statuses: its status is terminal.
C9_StoppedChainIsTerminal ==
    \A r \in Records :
        ChainStopped(r) => StatusOf(r) \in EndStatuses

\* C10: no stage ends by raising an exception to Celery.
C10_NoStageRaises ==
    \A r \in Runs : celery[r].raised = "none"

\* A cancel request for run r is answered in this step.
CancelAnswered(r) ==
    \/ cancel_response'[r] # cancel_response[r]
    \/ celery'[r].revoked # celery[r].revoked

\* C11: for an existing run with a stored Celery id, a cancel request, the
\* first or a repeated one, is never answered with an error and leaves the
\* Run Record with status CANCELLED.
C11_CancelIdempotent ==
    [][ \A r \in Records :
          ( /\ task_transaction[r].celery_task_id # NoId
            /\ CancelAnswered(r) )
          => /\ cancel_response'[r] = 200
             /\ task_transaction'[r].status = CANCELLED
      ]_vars

\* A worker begins a stage of run r in this step.
StageBegins(r) ==
    /\ celery[r].pc \in {"ingest_queued", "cluster_queued", "analysis_queued"}
    /\ celery'[r].pc \notin {celery[r].pc, "chain_revoked"}

\* C12 (its safety half): once cancel has revoked the chain of a run that is
\* not terminal, no stage of the run that had not begun is begun afterwards,
\* and a Run Record with status CANCELLED keeps it.
C12_CancelStopsChain ==
    [][ \A r \in Records :
          /\ ( /\ celery[r].revoked
               /\ StatusOf(r) \notin EndStatuses ) => ~StageBegins(r)
          /\ StatusOf(r) = CANCELLED => task_transaction'[r].status = CANCELLED
      ]_vars

\* C13: start creates exactly one new Run Record, with status RECEIVED and
\* progress 0, and submits the chain of the run once, with the record in
\* place; when start has answered, the record holds the Celery id that the
\* submission returned.
C13_StartCreatesAndStores ==
    [][ /\ Len(task_transaction') = Cardinality({ q \in Runs : api'[q] # "idle" })
        /\ \A r \in Runs :
             /\ (api[r] = "idle" /\ api'[r] # "idle") =>
                   /\ task_transaction' = Append(task_transaction, task_transaction'[r])
                   /\ task_transaction'[r].status = RECEIVED
                   /\ task_transaction'[r].progress = 0
                   /\ celery[r].pc = "none"
                   /\ celery'[r].pc = "ingest_queued"
             /\ (celery[r].pc # "ingest_queued" /\ celery'[r].pc = "ingest_queued") =>
                   api[r] = "idle"
             /\ api'[r] = "answered" =>
                   task_transaction'[r].celery_task_id = CeleryId(r)
      ]_vars

\* C13 witness: start has answered and the record holds the id of the chain.
C13_Witness ==
    \E r \in Records :
        /\ api[r] = "answered"
        /\ task_transaction[r].celery_task_id = CeleryId(r)
        /\ celery[r].pc # "none"

\* C14: a status request for an id that no Run Record has is answered
\* NotFound (404), and creates or changes no Run Record.
C14_StatusNotFound ==
    [][ ( /\ status_response' # status_response
          /\ status_response'.transaction_id \notin { Oid(q) : q \in Records } )
        => /\ status_response'.status_code = 404
           /\ task_transaction' = task_transaction
      ]_vars

\* The embeddings the vector store returns to the cluster task of run r.
EmbeddingsOf(r) == get_embeddings_from_db(vector_store, celery[r].arg.result.thread_ids)
\* The cluster task of run r returns in this step.
ClusterReturns(r) ==
    /\ celery[r].pc = "cluster_started"
    /\ celery'[r].pc = "analysis_queued"
\* What it returns is the result of its exception handler.
HandlerResult(r) == celery'[r].arg = ClusterError("Unexpected error during clustering")

\* C15: when the vector store returns 1 to 4 documents, however many ids
\* were asked for, and nothing makes the task's exception handler run, the
\* cluster stage returns a success with one core document per document, each
\* with probability 1.0, and num_clusters = num_documents = the number of
\* documents.
C15_SmallCorpusDirect ==
    [][ \A r \in Runs :
          ( /\ ClusterReturns(r)
            /\ Len(EmbeddingsOf(r)) \in 1..(SmallCorpus - 1)
            /\ ~HandlerResult(r) )
          => LET res == celery'[r].arg
             IN /\ res.status = "success"
                /\ res.result.num_documents = Len(EmbeddingsOf(r))
                /\ res.result.num_clusters = Len(EmbeddingsOf(r))
                /\ res.result.core_docs = DirectCoreDocs(EmbeddingsOf(r))
      ]_vars

\* C16: when the previous result is a success and no document is available
\* (no id, or the vector store returns nothing), the cluster task does not
\* raise and inserts no Cluster Run; it returns a result tagged "error", and
\* unless its exception handler ran, the one that says no documents were
\* found, with the Run Records as they were.
C16_NoDocumentsIsError ==
    [][ \A r \in Runs :
          ( /\ celery[r].pc = "cluster_started"
            /\ celery'[r] # celery[r]
            /\ Len(EmbeddingsOf(r)) = 0 )
          => /\ ClusterReturns(r)
             /\ celery'[r].raised = "none"
             /\ celery'[r].arg.status = "error"
             /\ clusters' = clusters
             /\ ~HandlerResult(r) =>
                   /\ celery'[r].arg = ClusterError("No documents found for unit_id")
                   /\ task_transaction' = task_transaction
      ]_vars

\* C16 witness: the cluster task has returned the no-documents error and no
\* Cluster Run exists.
C16_Witness ==
    /\ celery[1].pc = "analysis_queued"
    /\ celery[1].arg = ClusterError("No documents found for unit_id")
    /\ StatusOf(1) = RUNNING_CLUSTERING
    /\ clusters = <<>>

\* The candidates of the search that did not raise and found more than one
\* cluster.
GoodCandidates ==
    { i \in DOMAIN grid.outcomes :
        grid.outcomes[i] # FitRaises /\ grid.outcomes[i].num_clusters > 1 }
\* The candidate whose parameters the search returned.
Returned == CHOOSE i \in DOMAIN GridOrder : GridOrder[i] = grid.best_params

\* C17: when the grid search evaluated a candidate that did not raise and
\* found more than one cluster, the parameters it returns are not those of a
\* candidate that found one cluster or none.
C17_GridNeverPicksDegenerate ==
    ( /\ grid.best_params # <<>>
      /\ ~grid.memory_high
      /\ GoodCandidates # {} )
    => \/ grid.outcomes[Returned] = FitRaises
       \/ grid.outcomes[Returned].num_clusters > 1

\* C17 witness: the first candidate found one cluster, the default candidate
\* found none, a later one found two, and the search returned the later one.
C17_Witness ==
    /\ grid.best_params = <<10, 2>>
    /\ ~grid.memory_high
    /\ grid.outcomes[1] = [num_clusters |-> 1, noise |-> 0]
    /\ grid.outcomes[3] = [num_clusters |-> 0, noise |-> GridDocs]
    /\ grid.outcomes[4].num_clusters = 2

\* C18: when the vector store returns 5 documents or more and the final
\* clustering call raises, the cluster task returns a success and inserts a
\* Cluster Run whose core documents are the first min(10, number of
\* documents) documents, each with probability 1.0, and whose num_clusters is
\* their number.
C18_FallbackOnFitError ==
    [][ \A r \in Runs :
          ( /\ ClusterReturns(r)
            /\ Len(EmbeddingsOf(r)) >= SmallCorpus
            /\ celery'[r].fit_raised )
          => LET res == celery'[r].arg
                 core_docs == DirectCoreDocs(DfHead(EmbeddingsOf(r), FallbackDocs))
             IN /\ res.status = "success"
                /\ res.result.core_docs = core_docs
                /\ res.result.num_clusters = Len(core_docs)
                /\ Len(clusters') = Len(clusters) + 1
                /\ clusters'[Len(clusters')].core_docs = core_docs
      ]_vars

\* C19: a stage that the broker delivers again leaves the persisted state as
\* one execution leaves it; in particular the cluster stage of a run adds no
\* second Cluster Run: there are no more Cluster Runs than runs.
C19_RedeliveryAddsNoClusterRun ==
    Len(clusters) <= Len(task_transaction)

\* The position of the chain in the order ingest, cluster, analysis.
ChainOrder ==
    << "none", "ingest_queued", "ingest_started", "cluster_queued", "cluster_started",
       "analysis_queued", "analysis_started", "chain_done" >>
ChainRank(pc) ==
    IF pc \in {"chain_failed", "chain_revoked"} THEN Len(ChainOrder)
    ELSE CHOOSE i \in DOMAIN ChainOrder : ChainOrder[i] = pc

\* C20: within a run the stages execute in the order ingest, cluster,
\* analysis.  The chain never goes back; a stage is queued only when the
\* stage before it has returned, begins only from the queue and raises only
\* while it executes; what the stage receives is what the stage before it
\* returned (the result the ingest task stored in the Run Record, the Cluster
\* Run the cluster task inserted).
C20_StagesSequential ==
    [][ \A r \in Runs :
          LET pc == celery[r].pc
              pc2 == celery'[r].pc
          IN /\ pc2 # pc => ChainRank(pc) < ChainRank(pc2)
             /\ (pc2 # pc /\ pc2 = "ingest_started") => pc = "ingest_queued"
             /\ (pc2 # pc /\ pc2 = "cluster_queued") => pc = "ingest_started"
             /\ (pc2 # pc /\ pc2 = "cluster_started") => pc = "cluster_queued"
             /\ (pc2 # pc /\ pc2 = "analysis_queued") => pc \in {"cluster_queued", "cluster_started"}
             /\ (pc2 # pc /\ pc2 = "analysis_started") => pc = "analysis_queued"
             /\ (pc2 # pc /\ pc2 = "chain_done") => pc \in {"analysis_queued", "analysis_started"}
             /\ (celery'[r].raised # celery[r].raised /\ celery'[r].raised = "ingest") =>
                   pc = "ingest_started"
             /\ (celery'[r].raised # celery[r].raised /\ celery'[r].raised = "analysis") =>
                   pc \in {"analysis_queued", "analysis_started"}
             /\ (pc2 \in {"ingest_started", "cluster_started", "analysis_started"}) =>
                   celery'[r].arg = celery[r].arg
             /\ (pc2 # pc /\ pc2 = "cluster_queued") =>
                   celery'[r].arg = task_transaction'[r].result
             /\ (pc = "cluster_started" /\ pc2 = "analysis_queued"
                   /\ celery'[r].arg.status = "success") =>
                   /\ Len(clusters') = Len(clusters) + 1
                   /\ celery'[r].arg.result =
                         [clusters'[Len(clusters')] EXCEPT !.cluster_id = ToString(Len(clusters'))]
      ]_vars

\* C20 witness: the three stages of a run have executed, and the chain ended
\* with the result of the analysis stage for the Cluster Run of the cluster
\* stage.
C20_Witness ==
    \E r \in Records :
        /\ celery[r].pc = "chain_done"
        /\ celery[r].arg.status = "success"
        /\ celery[r].arg.transaction_id = Oid(r)
        /\ Len(clusters) = 1
        /\ StatusOf(r) = COMPLETED
        /\ question_cluster # {}

\* C21: two runs started for the same unit each have a Run Record of their own
\* and both proceed: a start always adds a new RECEIVED record, whatever
\* records the unit already has, and a step of one run (its start, a task of
\* its chain) leaves the Run Record of every other run as it was.
ActsFor(a) ==
    \/ celery'[a] # celery[a]
    \/ api'[a] # api[a]
    \/ cancel_response'[a] # cancel_response[a]

Evaluated == { i \in DOMAIN GridOrder : grid.outcomes[i] # FitRaises }
AboveDefault == { i \in Evaluated : Score(grid.outcomes[i]) > -GridDocs }
EarliestBest ==
    CHOOSE i \in AboveDefault :
        \A j \in AboveDefault :
            /\ Score(grid.outcomes[j]) <= Score(grid.outcomes[i])
            /\ Score(grid.outcomes[j]) = Score(grid.outcomes[i]) => i <= j

C22_GridSearchArgmax ==
    /\ { GridOrder[i] : i \in DOMAIN GridOrder } = GridCandidates
    /\ \A c \in GridCandidates : c[2] <= c[1]
    /\ (grid.best_params # <<>> /\ ~grid.memory_high) =>
          grid.best_params =
              IF AboveDefault = {} THEN DefaultParams ELSE GridOrder[EarliestBest]

C22_Witness ==
    /\ grid.best_params # <<>>
    /\ ~grid.memory_high
    /\ \E i \in AboveDefault, j \in AboveDefault :
          /\ i < j
          /\ Score(grid.outcomes[i]) = Score(grid.outcomes[j])
          /\ grid.best_params = GridOrder[i]
          /\ grid.best_params # DefaultParams

\* C25: a candidate whose fit raises is skipped: the search returns what it
\* returns when that candidate scores -1, a later candidate that alone has the
\* highest score is still returned, and a search in which every fit raises
\* returns the default.
SkippedOutcomes ==
    [ i \in DOMAIN grid.outcomes |->
        IF grid.outcomes[i] = FitRaises
        THEN [num_clusters |-> 0, noise |-> GridDocs]
        ELSE grid.outcomes[i] ]

C25_RaisingCandidateSkipped ==
    (grid.best_params # <<>> /\ ~grid.memory_high) =>
        /\ grid.best_params = optimize_hdbscan_parameters(FALSE, SkippedOutcomes)
        /\ \A i \in AboveDefault :
              (\A j \in Evaluated \ {i} :
                    Score(grid.outcomes[j]) < Score(grid.outcomes[i]))
                => grid.best_params = GridOrder[i]
        /\ Evaluated = {} => grid.best_params = DefaultParams

C25_Witness ==
    /\ grid.best_params # <<>>
    /\ ~grid.memory_high
    /\ \E j \in DOMAIN GridOrder \ Evaluated, i \in AboveDefault :
          /\ j < i
          /\ grid.best_params = GridOrder[i]
          /\ grid.best_params # DefaultParams

\* C23: the final clustering returns exactly one core document for each
\* distinct non-noise label; that document is a row of that label, its
\* probability is that row's and is at least the probability of every other
\* row of the label; no noise row is a core document.
FitReturned == final_fit.returned
NonNoiseLabels == { final_fit.labels[i] : i \in DOMAIN final_fit.labels } \ {Noise}
RowOf(doc) == CHOOSE i \in DOMAIN final_fit.df : final_fit.df[i] = doc.id
LabelOf(doc) == final_fit.labels[RowOf(doc)]

C23_OneCoreDocumentPerLabel ==
    FitReturned =>
        LET docs == final_fit.core_docs
        IN /\ \A l \in NonNoiseLabels :
                 Cardinality({ j \in DOMAIN docs : LabelOf(docs[j]) = l }) = 1
           /\ \A j \in DOMAIN docs :
                 /\ docs[j].id \in { final_fit.df[i] : i \in DOMAIN final_fit.df }
                 /\ LabelOf(docs[j]) # Noise
                 /\ docs[j].probability = final_fit.probabilities[RowOf(docs[j])]
                 /\ \A i \in DOMAIN final_fit.labels :
                       final_fit.labels[i] = LabelOf(docs[j])
                         => final_fit.probabilities[i] <= docs[j].probability

C23_Witness ==
    /\ FitReturned
    /\ Cardinality(NonNoiseLabels) = 1
    /\ Noise \in { final_fit.labels[i] : i \in DOMAIN final_fit.labels }
    /\ Len(final_fit.core_docs) = 1
    /\ \E i \in DOMAIN final_fit.labels :
          /\ final_fit.labels[i] = LabelOf(final_fit.core_docs[1])
          /\ final_fit.probabilities[i] < final_fit.core_docs[1].probability

\* C24: when the grid search of the cluster task returns at its memory check,
\* the task returns the outcome of a final clustering with min_cluster_size 5
\* and min_samples 5: a success whose Cluster Run has those parameters and
\* does not come from the fallback on the first documents.
C24_MemoryGuardClustersWithDefaults ==
    [][ \A r \in Runs :
          ( /\ ClusterReturns(r)
            /\ celery'[r].memory_guard )
          => LET res == celery'[r].arg
             IN /\ res.status = "success"
                /\ res.result.parameters.min_cluster_size = DefaultParams[1]
                /\ res.result.parameters.min_samples = DefaultParams[2]
                /\ ~celery'[r].fit_raised
      ]_vars

\* C26: the write of PENDING that run_chain_task performs after it submitted
\* the chain never moves a Run Record backwards: the status before the write
\* is on the main line, and the status after the write is not earlier on it.
NotEarlier(old, new) ==
    /\ OnMainLine(old)
    /\ OnMainLine(new)
    /\ Rank(old) <= Rank(new)

C26_StartWriteNeverBackwards ==
    [][ \A r \in Records :
          (api[r] = "submitted" /\ api'[r] = "answered")
            => NotEarlier(StatusOf(r), task_transaction'[r].status)
      ]_vars

\* C27: a Run Record whose status is COMPLETED holds in result the report of
\* the analysis task of its run, never the payload of the ingest task or an
\* empty result.
IsReport(result) == "questions" \in DOMAIN result

C27_CompletedHoldsReport ==
    \A r \in Records :
        StatusOf(r) = COMPLETED => IsReport(task_transaction[r].result)

\* C30: of two successive status requests for one run that are answered 200,
\* the later one does not report a smaller progress than the earlier one,
\* as long as the run has not failed.
C30_PolledProgressNeverDecreases ==
    [][ ( /\ status_response.status_code = 200
          /\ status_response'.status_code = 200
          /\ status_response'.transaction_id = status_response.transaction_id
          /\ \A r \in Records :
                Oid(r) = status_response'.transaction_id
                  => task_transaction'[r].status \notin {FAILURE, ERROR, CANCELLED} )
        => status_response'.progress >= status_response.progress
      ]_vars

\* C28: every Cluster Run the cluster task persists, on its direct path, after
\* a final clustering and on the fallback, has num_clusters = the number of
\* its core documents <= num_documents = the number of input documents; its
\* core documents have pairwise distinct ids, all of them ids of input
\* documents, and probabilities between 0 and 1.
PersistsClusterRun == Len(clusters') = Len(clusters) + 1
C28_ClusterRunWellFormed ==
    [][ \A r \in Runs :
          (ClusterReturns(r) /\ PersistsClusterRun)
          => LET record == clusters'[Len(clusters')]
                 docs == record.core_docs
                 input == EmbeddingsOf(r)
             IN /\ record.num_clusters = Len(docs)
                /\ Len(docs) <= record.num_documents
                /\ record.num_documents = Len(input)
                /\ \A i \in DOMAIN docs, j \in DOMAIN docs :
                      docs[i].id = docs[j].id => i = j
                /\ \A i \in DOMAIN docs :
                      /\ docs[i].id \in { input[x] : x \in DOMAIN input }
                      /\ docs[i].probability \in 0..ProbScale
      ]_vars

C28_Witness ==
    /\ Len(clusters) = 1
    /\ celery[1].pc = "analysis_queued"
    /\ ~celery[1].fit_raised
    /\ clusters[1].num_documents >= SmallCorpus
    /\ clusters[1].num_clusters = 2
    /\ Len(clusters[1].core_docs) = 2
    /\ clusters[1].num_documents > 2 * clusters[1].parameters.min_cluster_size

\* C29: a status update changes, in the record it addresses, status and
\* progress, completed_at when the status is COMPLETED or SUCCESS, and those
\* of error_message, result and celery_task_id that are passed non-empty; the
\* others keep their values, as does every other record; an update addressed
\* to an id without a record adds no record, changes nothing and returns None.
Called == update_call = NoCall /\ update_call' # NoCall
C29_UpdateFrame ==
    [][ Called =>
          LET c == update_call'
              addressed == { r \in DOMAIN task_transaction : Oid(r) = c.task_id }
          IN /\ DOMAIN task_transaction' = DOMAIN task_transaction
             /\ \A r \in DOMAIN task_transaction \ addressed :
                   task_transaction'[r] = task_transaction[r]
             /\ \A r \in addressed :
                   LET old == task_transaction[r]
                       new == task_transaction'[r]
                   IN /\ new.status = c.status
                      /\ new.progress = ProgressOf(c.status)
                      /\ new.completed_at =
                             (old.completed_at \/ c.status \in {COMPLETED, SUCCESS})
                      /\ new.error_message =
                             IF c.error_message = "" THEN old.error_message
                             ELSE c.error_message
                      /\ new.result =
                             IF c.result \in {None, EmptyDict} THEN old.result ELSE c.result
                      /\ new.celery_task_id =
                             IF c.celery_task_id = NoId THEN old.celery_task_id
                             ELSE c.celery_task_id
                      /\ new.input = old.input
                      /\ DOMAIN new = DOMAIN old
             /\ addressed = {} =>
                   /\ task_transaction' = task_transaction
                   /\ c.returned = "None"
      ]_vars

C29_Witness ==
    /\ update_call # NoCall
    /\ update_call.task_id = Oid(1)
    /\ update_call.status = FAILURE
    /\ update_call.error_message = ""
    /\ update_call.result = None
    /\ update_call.celery_task_id = NoId
    /\ task_transaction[1].status = FAILURE
    /\ task_transaction[1].result = StoringTaskResult(1, Oid(1))
    /\ task_transaction[1].celery_task_id = CeleryId(1)
====
